---- MODULE Spec2Model ----
(***************************************************************************)
(* Model of website-monitor/src/lib.rs: monitor_websites, the concurrent   *)
(* dispatch engine (orchestrator, worker pool, job channel behind a mutex, *)
(* result channel, collector) and the Shutdown token.                      *)
(*                                                                         *)
(* Threads are the orchestrator (mainpc) and the spawned workers (wpc).    *)
(* Every action is one atomic interaction of a thread with shared state    *)
(* (the AtomicBool, the mutex, one of the two mpsc channels) or the return *)
(* of the blocking probe.  response_time and timestamp of WebsiteStatus    *)
(* are not modelled: no decision of the code reads them.                   *)
(*                                                                         *)
(* Ghost state (never read by an action's guard): the id field of jobs and *)
(* records (index of the seeding input position), probes, fails, lastres,  *)
(* received, earlyCancel.                                                  *)
(***************************************************************************)
EXTENDS Integers, Sequences, FiniteSets, TLC

\* ---------------------------------------------------------------- bounds
MaxUrls == 2          \* longest input list
MaxWorkers == 2       \* largest configured worker_threads
MaxRetries == 2       \* largest configured max_retries

URLS == {"A", "B"}
Codes == {200, 503}
Reasons == {"request error: refused", "request error: timeout"}

\* ------------------------------------------------------------ data types
\* Result<u16, String> of fetch_status
Ok(code) == [ok |-> TRUE, code |-> code, err |-> ""]
Err(reason) == [ok |-> FALSE, code |-> 0, err |-> reason]
ProbeOutcomes == {Ok(c) : c \in Codes} \cup {Err(r) : r \in Reasons}
NoRes == [ok |-> FALSE, code |-> 0, err |-> ""]

\* struct Job { url, attempt }; id is ghost
Job(url, attempt, id) == [url |-> url, attempt |-> attempt, id |-> id]
NoJob == Job("", 0, 0)

\* struct WebsiteStatus { url, status, .. }; id and attempt are ghost
WebsiteStatus(job, status) ==
  [url |-> job.url, status |-> status, id |-> job.id, attempt |-> job.attempt]

VARIABLES
  urls,          \* argument urls: Vec<String>
  cfgWorkers,    \* argument config.worker_threads as passed in
  max_retries,   \* argument config.max_retries
  tokenGiven,    \* argument shutdown is Some(token)
  mainpc,        \* position of the orchestrator thread
  nworkers,      \* config.worker_threads after normalisation = number spawned
  cancelled,     \* Shutdown.cancelled
  jobQ,          \* buffer of the job channel
  resQ,          \* buffer of the result channel
  lockHolder,    \* worker holding the Mutex<Receiver<Job>>, 0 if none
  wpc,           \* position of each worker thread
  wjob,          \* local job of each worker
  wres,          \* local result of each worker
  seen,          \* collector's HashSet of urls
  out,           \* collector's Vec<WebsiteStatus>
  joined,        \* number of workers the join loop has joined
  probes,        \* ghost: number of fetch_status calls returned, per job id
  fails,         \* ghost: number of those that returned Err, per job id
  lastres,       \* ghost: the last value fetch_status returned, per job id
  received,      \* ghost: every value res_rx.recv() returned Ok, in order
  earlyCancel    \* ghost: cancelled became true before any job was dequeued

inputs == <<urls, cfgWorkers, max_retries, tokenGiven>>
ghosts == <<probes, fails, lastres, received, earlyCancel>>
vars == <<urls, cfgWorkers, max_retries, tokenGiven, mainpc, nworkers,
          cancelled, jobQ, resQ, lockHolder, wpc, wjob, wres, seen, out,
          joined, probes, fails, lastres, received, earlyCancel>>

\* ------------------------------------------------------------- helpers
Min(a, b) == IF a < b THEN a ELSE b
Workers == 1..nworkers
Ids == 1..Len(urls)
Distinct(s) == \A i, j \in 1..Len(s) : i # j => s[i] # s[j]

\* ---------------------------------------------------------- Shutdown
\* a store of the negated flag instead of `true`
cancel_toggle(flag) == ~flag
\* Shutdown::cancel: cancelled.store(true)
cancel(flag) == TRUE
\* Shutdown::is_cancelled: cancelled.load()
is_cancelled(flag) == flag

\* -------------------------------------------------- orchestrator parts
\* lines 90-93: zero workers -> 1, then min with urls.len()
NormalizeWorkers(configured, n) ==
  Min(IF configured = 0 THEN 1 ELSE configured, n)

\* no early return on an empty list
IsEmptyInput_never(us) == FALSE
\* line 86: urls.is_empty()
IsEmptyInput(us) == Len(us) = 0

\* seeding that starts the attempt count at 1
SeedJobs_from1(us) == [i \in 1..Len(us) |-> Job(us[i], 1, i)]
\* seeding that sends every url twice
SeedJobs_twice(us) ==
  [i \in 1..Len(us) |-> Job(us[i], 0, i)] \o [i \in 1..Len(us) |-> Job(us[i], 0, i)]
\* lines 101-106: one Job per element of urls, attempt 0
SeedJobs(us) == [i \in 1..Len(us) |-> Job(us[i], 0, i)]

\* workers that borrow the orchestrator's sender instead of owning a clone
JobSenders_mainOnly(holdsMain, pcs) == IF holdsMain THEN 1 ELSE 0
\* senders of the job channel: job_tx (dropped at line 190) and one
\* job_tx_retry per live worker thread
JobSenders(holdsMain, pcs) ==
  (IF holdsMain THEN 1 ELSE 0) + Cardinality({w \in DOMAIN pcs : pcs[w] # "stopped"})

\* senders of the result channel: res_tx (dropped at line 191) and one
\* `results` clone per live worker thread
ResSenders(holdsMain, pcs) ==
  (IF holdsMain THEN 1 ELSE 0) + Cardinality({w \in DOMAIN pcs : pcs[w] # "stopped"})

\* mpsc Receiver::recv_timeout(..).ok() on the job channel, observed at the
\* moment it returns: a buffered job, else None (Timeout, or Disconnected
\* when no sender is left)
RecvTimeout(q, senders) ==
  IF q # <<>> THEN "job"
  ELSE IF senders = 0 THEN "disconnected"
  ELSE "timeout"

\* a receive that hands out the front job without taking it off the buffer
Dequeued_peek(q) == q
\* lines 135: the job buffer after recv_timeout has handed out its front job
Dequeued(q) == Tail(q)

\* a guard kept alive past the poll (no inner block around lock and recv)
ReleaseAfterPoll_held(holder) == holder
\* lines 133-136: rx_guard goes out of scope at the end of the block
ReleaseAfterPoll(holder) == 0

\* a worker that leaves its loop on any empty poll
StopAfterEmptyPoll_always(flag) == TRUE
\* lines 145-150: after an empty poll, break only when cancelled
StopAfterEmptyPoll(flag) == is_cancelled(flag)

\* a send whose value is dropped
Send_dropped(q, v) == q
\* lines 159, 171, 176: mpsc Sender::send appends to the channel's buffer
Send(q, v) == Append(q, v)

\* a receive that gives up as soon as the buffer is empty (try_recv)
Recv_eager(q, senders) == IF q # <<>> THEN "ok" ELSE "err"
\* mpsc Receiver::recv on the result channel: a buffered value, Err when the
\* buffer is empty and every sender is dropped, otherwise it blocks
Recv(q, senders) ==
  IF q # <<>> THEN "ok"
  ELSE IF senders = 0 THEN "err"
  ELSE "block"

\* off-by-one retry limit: attempt <= max_retries
ShouldRetry_le(flag, attempt, maxr) == ~is_cancelled(flag) /\ attempt <= maxr
\* line 167: retry condition of the failure branch
ShouldRetry(flag, attempt, maxr) == ~is_cancelled(flag) /\ attempt < maxr

\* a retry job that skips an attempt number
RetryJob_skip(job) == Job(job.url, job.attempt + 2, job.id)
\* lines 171-174: the retry job
RetryJob(job) == Job(job.url, job.attempt + 1, job.id)

\* a collector that puts a new record in front
CollectorOut_prepend(sn, o, ws) == IF ws.url \in sn THEN o ELSE <<ws>> \o o
\* a collector that pushes without consulting seen
CollectorOut_nodedup(sn, o, ws) == Append(o, ws)
\* lines 200-202: seen.insert(url) and the conditional push
CollectorOut(sn, o, ws) == IF ws.url \in sn THEN o ELSE Append(o, ws)

\* a join that does not wait for the thread
JoinReady_nowait(pcs, k) == TRUE
\* line 209: JoinHandle::join returns once the thread has finished
JoinReady(pcs, k) == pcs[k] = "stopped"

\* line 197: loop condition of the collector
CollectorWaits(sn, us) == Cardinality(sn) < Len(us)

\* ---------------------------------------------------------------- Init
Init ==
  /\ urls \in UNION {[1..n -> URLS] : n \in 0..MaxUrls}
  /\ cfgWorkers \in 0..MaxWorkers
  /\ max_retries \in 0..MaxRetries
  /\ tokenGiven \in BOOLEAN
  /\ mainpc = "start"
  /\ nworkers = 0
  /\ cancelled = FALSE
  /\ jobQ = <<>>
  /\ resQ = <<>>
  /\ lockHolder = 0
  /\ wpc = <<>>
  /\ wjob = <<>>
  /\ wres = <<>>
  /\ seen = {}
  /\ out = <<>>
  /\ joined = 0
  /\ probes = [i \in Ids |-> 0]
  /\ fails = [i \in Ids |-> 0]
  /\ lastres = [i \in Ids |-> NoRes]
  /\ received = <<>>
  /\ earlyCancel = FALSE

\* no recv_timeout has handed out a job yet: the queue is as seeded
NoDequeueYet == mainpc = "start" \/ jobQ = SeedJobs(urls)

\* bookkeeping of the ghost at a store of `true` into the flag
CancelGhosts ==
  earlyCancel' = IF cancelled THEN earlyCancel ELSE NoDequeueYet

\* ------------------------------------------------------- orchestrator
\* lines 86-88: empty input returns at once
StartEmpty ==
  /\ mainpc = "start"
  /\ IsEmptyInput(urls)
  /\ mainpc' = "returned"
  /\ UNCHANGED <<inputs, nworkers, cancelled, jobQ, resQ, lockHolder, wpc,
                 wjob, wres, seen, out, joined, ghosts>>

\* lines 90-195: normalise, create the channels, seed, spawn the workers,
\* drop job_tx and res_tx, create seen and out.  A worker spawned early is
\* not distinguishable from one that has not yet taken its first step,
\* and the orchestrator keeps both senders until all workers exist.
Start ==
  /\ mainpc = "start"
  /\ ~IsEmptyInput(urls)
  /\ nworkers' = NormalizeWorkers(cfgWorkers, Len(urls))
  /\ jobQ' = SeedJobs(urls)
  /\ wpc' = [w \in 1..nworkers' |-> "top"]
  /\ wjob' = [w \in 1..nworkers' |-> NoJob]
  /\ wres' = [w \in 1..nworkers' |-> NoRes]
  /\ mainpc' = "collect"
  /\ UNCHANGED <<inputs, cancelled, resQ, lockHolder, seen, out, joined, ghosts>>

\* lines 197-206: one iteration of the collector loop
Collect ==
  /\ mainpc = "collect"
  /\ IF ~CollectorWaits(seen, urls)
     THEN /\ mainpc' = "join"
          /\ UNCHANGED <<resQ, seen, out, received>>
     ELSE LET r == Recv(resQ, ResSenders(FALSE, wpc)) IN
          /\ r # "block"
          /\ IF r = "ok"
             THEN /\ out' = CollectorOut(seen, out, Head(resQ))
                  /\ seen' = seen \cup {Head(resQ).url}
                  /\ received' = Append(received, Head(resQ))
                  /\ resQ' = Tail(resQ)
                  /\ mainpc' = "collect"
             ELSE /\ mainpc' = "join"
                  /\ UNCHANGED <<resQ, seen, out, received>>
  /\ UNCHANGED <<inputs, nworkers, cancelled, jobQ, lockHolder, wpc, wjob,
                 wres, joined, probes, fails, lastres, earlyCancel>>

\* lines 208-212: join the workers in spawn order, then return out
Join ==
  /\ mainpc = "join"
  /\ IF joined < nworkers
     THEN /\ JoinReady(wpc, joined + 1)
          /\ joined' = joined + 1
          /\ mainpc' = "join"
     ELSE /\ mainpc' = "returned"
          /\ joined' = joined
  /\ UNCHANGED <<inputs, nworkers, cancelled, jobQ, resQ, lockHolder, wpc,
                 wjob, wres, seen, out, ghosts>>

\* main.rs lines 53-59 (Ctrl+C handler) or any other holder of a clone of
\* the token passed in: Shutdown::cancel
ExternalCancel ==
  /\ tokenGiven
  /\ cancelled' = cancel(cancelled)
  /\ CancelGhosts
  /\ UNCHANGED <<inputs, mainpc, nworkers, jobQ, resQ, lockHolder, wpc, wjob,
                 wres, seen, out, joined, probes, fails, lastres, received>>

\* ------------------------------------------------------------- workers
\* lines 128-130: cancellation check at the top of the loop
WTop(w) ==
  /\ wpc[w] = "top"
  /\ wpc' = [wpc EXCEPT ![w] = IF is_cancelled(cancelled) THEN "stopped" ELSE "lock"]
  /\ UNCHANGED <<inputs, mainpc, nworkers, cancelled, jobQ, resQ, lockHolder,
                 wjob, wres, seen, out, joined, ghosts>>

\* line 134: jobs_shared.lock()
WLock(w) ==
  /\ wpc[w] = "lock"
  /\ lockHolder = 0
  /\ lockHolder' = w
  /\ wpc' = [wpc EXCEPT ![w] = "recv"]
  /\ UNCHANGED <<inputs, mainpc, nworkers, cancelled, jobQ, resQ, wjob, wres,
                 seen, out, joined, ghosts>>

\* lines 135-138: recv_timeout returns, the guard is dropped
WRecv(w) ==
  /\ wpc[w] = "recv"
  /\ lockHolder' = ReleaseAfterPoll(lockHolder)
  /\ IF RecvTimeout(jobQ, JobSenders(FALSE, wpc)) = "job"
     THEN /\ wjob' = [wjob EXCEPT ![w] = Head(jobQ)]
          /\ jobQ' = Dequeued(jobQ)
          /\ wpc' = [wpc EXCEPT ![w] = "fetch"]
     ELSE /\ wpc' = [wpc EXCEPT ![w] = "none"]
          /\ UNCHANGED <<wjob, jobQ>>
  /\ UNCHANGED <<inputs, mainpc, nworkers, cancelled, resQ, wres, seen, out,
                 joined, ghosts>>

\* lines 145-150: no job; stop when cancelled, else poll again
WNone(w) ==
  /\ wpc[w] = "none"
  /\ wpc' = [wpc EXCEPT ![w] = IF StopAfterEmptyPoll(cancelled) THEN "stopped" ELSE "top"]
  /\ UNCHANGED <<inputs, mainpc, nworkers, cancelled, jobQ, resQ, lockHolder,
                 wjob, wres, seen, out, joined, ghosts>>

\* lines 153-155: fetch_status returns
WFetch(w) ==
  /\ wpc[w] = "fetch"
  /\ \E o \in ProbeOutcomes :
       /\ wres' = [wres EXCEPT ![w] = o]
       /\ probes' = [probes EXCEPT ![wjob[w].id] = @ + 1]
       /\ fails' = [fails EXCEPT ![wjob[w].id] = IF o.ok THEN @ ELSE @ + 1]
       /\ lastres' = [lastres EXCEPT ![wjob[w].id] = o]
  /\ wpc' = [wpc EXCEPT ![w] = "match"]
  /\ UNCHANGED <<inputs, mainpc, nworkers, cancelled, jobQ, resQ, lockHolder,
                 wjob, seen, out, joined, received, earlyCancel>>

\* lines 157-183: match on the result; emit, or decide to retry
WMatch(w) ==
  /\ wpc[w] = "match"
  /\ IF ~wres[w].ok /\ ShouldRetry(cancelled, wjob[w].attempt, max_retries)
     THEN /\ wpc' = [wpc EXCEPT ![w] = "backoff"]
          /\ UNCHANGED <<resQ, wjob, wres>>
     ELSE /\ resQ' = Send(resQ, WebsiteStatus(wjob[w], wres[w]))
          /\ wjob' = [wjob EXCEPT ![w] = NoJob]
          /\ wres' = [wres EXCEPT ![w] = NoRes]
          /\ wpc' = [wpc EXCEPT ![w] = "top"]
  /\ UNCHANGED <<inputs, mainpc, nworkers, cancelled, jobQ, lockHolder, seen,
                 out, joined, ghosts>>

\* lines 169-174: the backoff sleep ends and the retry job is sent
WBackoff(w) ==
  /\ wpc[w] = "backoff"
  /\ jobQ' = Send(jobQ, RetryJob(wjob[w]))
  /\ wjob' = [wjob EXCEPT ![w] = NoJob]
  /\ wres' = [wres EXCEPT ![w] = NoRes]
  /\ wpc' = [wpc EXCEPT ![w] = "top"]
  /\ UNCHANGED <<inputs, mainpc, nworkers, cancelled, resQ, lockHolder, seen,
                 out, joined, ghosts>>

Worker(w) ==
  \/ WTop(w)
  \/ WLock(w)
  \/ WRecv(w)
  \/ WNone(w)
  \/ WFetch(w)
  \/ WMatch(w)
  \/ WBackoff(w)

Main ==
  \/ StartEmpty
  \/ Start
  \/ Collect
  \/ Join

Next ==
  \/ StartEmpty
  \/ Start
  \/ Collect
  \/ Join
  \/ ExternalCancel
  \/ \E w \in Workers : WTop(w)
  \/ \E w \in Workers : WLock(w)
  \/ \E w \in Workers : WRecv(w)
  \/ \E w \in Workers : WNone(w)
  \/ \E w \in Workers : WFetch(w)
  \/ \E w \in Workers : WMatch(w)
  \/ \E w \in Workers : WBackoff(w)

Spec == Init /\ [][Next]_vars

\* Threads are scheduled by the operating system: each thread that can take
\* a step eventually does.  Cancellation from outside is not obliged.
FairSpec ==
  /\ Spec
  /\ WF_vars(Main)
  /\ \A w \in 1..MaxUrls : WF_vars(w \in Workers /\ Worker(w))

\* ------------------------------------------------------------ claims
\* every record sent on the result channel so far, in order of sending
Sent == received \o resQ
RecordsOf(id) == {k \in 1..Len(Sent) : Sent[k].id = id}
AllStopped == \A w \in Workers : wpc[w] = "stopped"
CollectorDone == mainpc \in {"join", "returned"} /\ urls # <<>>
OnePerInputUrl ==
  /\ Len(out) = Len(urls)
  /\ \A i \in Ids : Cardinality({k \in 1..Len(out) : out[k].url = urls[i]}) = 1

\* C1: for a non-empty list of distinct URLs, a probe that always returns and
\* no cancellation from outside, monitor_websites eventually returns, with
\* exactly one record per input URL.
C1_RunReturnsOnePerUrl ==
  <>(\/ cancelled
     \/ ~(urls # <<>> /\ Distinct(urls))
     \/ (mainpc = "returned" /\ OnePerInputUrl))

\* C2: when the collector has completed it has signalled cancellation (so
\* that the workers stop and the join completes).
C2_CollectorSignalsCancel == mainpc = "join" => cancelled

\* C3: out holds at most one record per URL; each is the first record
\* received for its URL, later ones for the same URL are discarded.
C3_AtMostOnePerUrl ==
  /\ \A i, j \in 1..Len(out) : i # j => out[i].url # out[j].url
  /\ \A i \in 1..Len(out) :
       \E k \in 1..Len(received) :
         /\ received[k] = out[i]
         /\ \A m \in 1..(k - 1) : received[m].url # out[i].url
  /\ seen = {received[k].url : k \in 1..Len(received)}
  /\ Len(out) = Cardinality(seen)
C3_Witness == Len(received) > Len(out) /\ Len(out) >= 1

\* C4: without cancellation a Failure record is sent for a job only after
\* max_retries + 1 probes that all failed (attempts 0..max_retries), it is the
\* only record of the job and carries the reason of the last probe; no job
\* is probed more often, and a retry is pushed only by a worker leaving its
\* backoff sleep.
C4_FailureInv ==
  /\ \A i \in Ids : probes[i] <= max_retries + 1
  /\ ~cancelled =>
       \A k \in 1..Len(Sent) :
         ~Sent[k].status.ok =>
           /\ probes[Sent[k].id] = max_retries + 1
           /\ fails[Sent[k].id] = max_retries + 1
           /\ Sent[k].attempt = max_retries
           /\ Sent[k].status = lastres[Sent[k].id]
           /\ Sent[k].status.err \in Reasons
           /\ RecordsOf(Sent[k].id) = {k}
C4_PushAfterBackoff ==
  (mainpc # "start" /\ Len(jobQ') > Len(jobQ)) =>
     \E w \in Workers :
       /\ wpc[w] = "backoff"
       /\ wpc'[w] = "top"
       /\ jobQ' = Append(jobQ, Job(wjob[w].url, wjob[w].attempt + 1, wjob[w].id))
C6_EarlyCancelFewerRecords ==
  (earlyCancel /\ CollectorDone /\ mainpc = "returned") => Len(out) < Len(urls)

\* C7: once all workers have stopped the collector leaves its loop, and it
\* leaves with fewer records than expected only when every worker has
\* stopped and the result buffer is drained.
C7_ExhaustedOnlyWhenStopped ==
  (CollectorDone /\ CollectorWaits(seen, urls)) => (AllStopped /\ resQ = <<>>)
C7_CollectorTerminates ==
  /\ []C7_ExhaustedOnlyWhenStopped
  /\ (mainpc = "collect" /\ AllStopped) ~> (mainpc # "collect")
C7_Witness == mainpc = "join" /\ CollectorWaits(seen, urls) /\ Len(out) >= 1

\* C8: once cancelled is true it stays true, whatever is called.
C8_CancelMonotonic == [][cancelled => cancelled']_vars
C8_Witness == cancelled /\ mainpc = "returned" /\ Len(out) >= 1

\* C9: no job is pushed onto the job queue by a worker once the flag is true.
C9_NoPushAfterCancel ==
  [][(cancelled /\ mainpc # "start") => Len(jobQ') <= Len(jobQ)]_vars

\* C10: no job is dequeued once the flag is true.
C10_NoDequeueAfterCancel ==
  [][(cancelled /\ mainpc # "start") => Len(jobQ') >= Len(jobQ)]_vars

\* the distinct input URLs
UrlSet == {urls[i] : i \in Ids}
Clamp(x, lo, hi) == IF x < lo THEN lo ELSE IF x > hi THEN hi ELSE x
Started == mainpc # "start" /\ urls # <<>>

\* C11: the number of workers spawned is clamp(configured, 1, number of
\* distinct input URLs).
C11_WorkersClampedToDistinct ==
  Started =>
    /\ nworkers = Clamp(cfgWorkers, 1, Cardinality(UrlSet))
    /\ DOMAIN wpc = 1..nworkers

\* C12: on an empty input list the run returns the empty list at once: no
\* job is enqueued, no worker exists, the collector is never entered, and
\* the step that returns leaves the token as it was.
C12_EmptyInv ==
  urls = <<>> =>
    /\ mainpc \in {"start", "returned"}
    /\ jobQ = <<>> /\ resQ = <<>>
    /\ nworkers = 0 /\ wpc = <<>>
    /\ out = <<>>
C12_EmptyStep ==
  (urls = <<>> /\ mainpc = "start" /\ mainpc' # "start") =>
     (mainpc' = "returned" /\ cancelled' = cancelled)
C12_EmptyInputReturnsAtOnce == []C12_EmptyInv /\ [][C12_EmptyStep]_vars
C12_Witness == urls = <<>> /\ mainpc = "returned" /\ tokenGiven /\ ~cancelled

\* C13: the collector keeps waiting exactly as long as some distinct input
\* URL has no record yet (its target is the number of distinct URLs).
C13_TargetIsDistinctUrls ==
  (mainpc = "collect") => (CollectorWaits(seen, urls) <=> seen # UrlSet)

\* jobs currently held by workers, and all jobs in flight
HeldBy(w) == wjob[w] # NoJob
QueuedIdx(id) == {k \in 1..Len(jobQ) : jobQ[k].id = id}
Holders(id) == {w \in Workers : HeldBy(w) /\ wjob[w].id = id}

C15_OneJobPerUrl ==
  (Started /\ Distinct(urls)) =>
    /\ \A u \in UrlSet :
         Cardinality({k \in 1..Len(jobQ) : jobQ[k].url = u})
           + Cardinality({w \in Workers : HeldBy(w) /\ wjob[w].url = u}) <= 1
    /\ \A k \in 1..Len(jobQ) : fails[jobQ[k].id] = jobQ[k].attempt
C15_Witness ==
  /\ Distinct(urls)
  /\ nworkers = 2
  /\ wpc[1] = "fetch" /\ wpc[2] = "fetch"
  /\ wjob[1].attempt >= 1

\* C16: a dequeued job is never lost and never doubled: at every moment
\* each seeded job is in exactly one place, the queue, one worker's hands,
\* or finished with exactly one record sent; and a worker at a poll point
\* or stopped holds no job.
C16_NoJobLost ==
  Started =>
    /\ \A i \in Ids :
         Cardinality(QueuedIdx(i)) + Cardinality(Holders(i))
           + Cardinality(RecordsOf(i)) = 1
    /\ \A w \in Workers :
         HeldBy(w) <=> wpc[w] \in {"fetch", "match", "backoff"}
C16_Witness ==
  /\ cancelled
  /\ \E k \in 1..Len(Sent) :
       /\ ~Sent[k].status.ok
       /\ Sent[k].attempt < max_retries

\* C17: a worker stops only in a step taken from a cancellation check (top
\* of the loop or after an empty poll) with the flag set and no job in
\* hand; with the flag clear those checks keep it polling.
C17_StopStep ==
  \A w \in Workers :
    /\ (wpc[w] # "stopped" /\ wpc'[w] = "stopped") =>
          (cancelled /\ wpc[w] \in {"top", "none"} /\ wjob[w] = NoJob)
    /\ (wpc[w] = "none" /\ ~cancelled) => wpc'[w] \in {"none", "top"}
    /\ (wpc[w] = "top" /\ ~cancelled) => wpc'[w] \in {"top", "lock"}
    /\ wpc[w] = "stopped" => wpc'[w] = "stopped"
C17_StoppedInv ==
  \A w \in Workers : wpc[w] = "stopped" => (cancelled /\ wjob[w] = NoJob)
C18_QueueStep ==
  mainpc # "start" =>
    \/ /\ jobQ' = jobQ
       /\ \A w \in Workers : wjob'[w] # wjob[w] => wjob'[w] = NoJob
    \/ /\ Len(jobQ') = Len(jobQ) + 1
       /\ SubSeq(jobQ', 1, Len(jobQ)) = jobQ
       /\ \A w \in Workers : wjob'[w] # wjob[w] => wjob'[w] = NoJob
    \/ /\ jobQ # <<>>
       /\ jobQ' = Tail(jobQ)
       /\ \E w \in Workers :
            /\ wjob[w] = NoJob
            /\ wjob'[w] = Head(jobQ)
            /\ \A v \in Workers \ {w} : wjob'[v] = wjob[v]
C18_QueueFifoNoLossNoDup == [][C18_QueueStep]_vars
C18_Witness ==
  /\ nworkers = 2
  /\ lockHolder = 1
  /\ wpc[2] = "fetch"
  /\ wjob[2].attempt >= 1
  /\ jobQ # <<>>

\* C19: the receiver lock is held by a worker exactly while it is in its
\* bounded poll; a worker probing, deciding, in backoff, at a cancellation
\* check or stopped does not hold it.
C19_LockOnlyDuringPoll ==
  /\ lockHolder \in 0..nworkers
  /\ \A w \in Workers : (lockHolder = w) <=> (wpc[w] = "recv")
C19_Witness ==
  /\ nworkers = 2
  /\ wpc[1] = "backoff"
  /\ lockHolder = 2

\* the first record of each url, in the order of s
RECURSIVE FirstPerUrl(_)
FirstPerUrl(s) ==
  IF s = <<>> THEN <<>>
  ELSE LET front == SubSeq(s, 1, Len(s) - 1)
           last == s[Len(s)]
       IN IF \E k \in 1..Len(front) : front[k].url = last.url
          THEN FirstPerUrl(front)
          ELSE Append(FirstPerUrl(front), last)

\* C20: out is the sequence of records received, in the order received,
\* restricted to the first record of each URL; the input order plays no part.
C20_ArrivalOrder == out = FirstPerUrl(received)
C20_Witness ==
  /\ mainpc = "returned"
  /\ Len(urls) = 2 /\ Distinct(urls)
  /\ Len(out) = 2
  /\ out[1].url = urls[2] /\ out[2].url = urls[1]

\* C21: once monitor_websites has returned its list, every spawned worker
\* has been joined and is stopped; none is polling, probing or in backoff.
C21_ReturnAfterAllStopped ==
  (mainpc = "returned" /\ urls # <<>>) =>
     /\ joined = nworkers
     /\ nworkers >= 1
     /\ \A w \in Workers : wpc[w] = "stopped" /\ wjob[w] = NoJob
     /\ lockHolder = 0
C21_Witness ==
  /\ mainpc = "returned"
  /\ nworkers = 2
  /\ Len(out) = 2

\* C22: while a worker is alive the job channel has a sender, so the poll
\* of a worker returns a job or times out, never Disconnected; and as long
\* as the flag is clear no worker has left its loop, whether or not the
\* queue is empty.
C22_PollStep ==
  \A w \in Workers :
    (wpc[w] = "recv" /\ wpc'[w] # "recv") =>
       LET r == RecvTimeout(jobQ, JobSenders(FALSE, wpc)) IN
       /\ r \in {"job", "timeout"}
       /\ r = "job" => (wpc'[w] = "fetch" /\ wjob'[w] = Head(jobQ))
       /\ r = "timeout" => (wpc'[w] = "none" /\ jobQ' = jobQ)
C22_AliveInv ==
  /\ \A w \in Workers : wpc[w] # "stopped" => JobSenders(FALSE, wpc) >= 1
  /\ ~cancelled => \A w \in Workers : wpc[w] # "stopped"
TypeOK ==
  /\ mainpc \in {"start", "collect", "join", "returned"}
  /\ cancelled \in BOOLEAN
  /\ lockHolder \in 0..nworkers
  /\ \A w \in Workers :
       wpc[w] \in {"top", "lock", "recv", "none", "fetch", "match", "backoff", "stopped"}
====
